---- MODULE Spec2Model ----
(***************************************************************************)
(* Retained-mode terminal UI of hyper_core.ui: the component tree          *)
(* (UIComponent, FlexContainer, BorderedContainer), the RenderEngine       *)
(* frame pass, the flex space allocation and the Mock backend window.      *)
(*                                                                         *)
(* Eleven specifications share the module:                                 *)
(*   Spec      the component tree driven through the RenderEngine          *)
(*   SpecFlex  FlexContainer._calculate_allocations on bounded inputs      *)
(*   SpecWin   MockWindow writes into the shared MockBackend buffer        *)
(*   SpecTitle BorderedContainer._draw_title on bounded titles and widths  *)
(*   SpecInput the MockBackend's synthetic input queue                     *)
(*   SpecApp   the engine driving an application tree already assembled    *)
(*   SpecLayout the geometry handed down an application tree               *)
(*   SpecShow  components hidden and shown between frames                  *)
(*   SpecClear the frames of an engine seen on the Mock backend's buffer   *)
(*   SpecLife  the backend calls of a RenderEngine over its lifetime       *)
(*   SpecTimes the frame counter and the render-time history               *)
(***************************************************************************)
EXTENDS Integers, Sequences, FiniteSets, TLC

VARIABLES
    render_state,       \* UIComponent._render_state
    visible,            \* UIComponent._visible
    children,           \* UIComponent._children
    parent,             \* UIComponent._parent
    last_size,          \* UIComponent._last_size
    last_position,      \* UIComponent._last_position
    content,            \* BorderedContainer._content
    child_configs,      \* FlexContainer._child_configs
    root_component,     \* RenderEngine.root_component
    force_redraw,       \* RenderEngine._force_redraw
    last_screen_size,   \* RenderEngine._last_screen_size
    frame_count,        \* RenderEngine._frame_count
    screen,             \* MockBackend (height, width)
    calls,              \* render_content invocations per component in the last frame
    raised,             \* components whose render_content raised in the last frame
    last,               \* the last operation called
    steps,              \* number of operations called so far
    limit,              \* number of operations called in one behaviour
    flex_in,            \* SpecFlex: the container's main-axis space and child configs
    flex_out,           \* SpecFlex: the allocations computed for flex_in
    win,                \* SpecWin: the WindowSpec of the window being written
    buffer,             \* SpecWin: MockBackend.screen_buffer
    wlast,              \* SpecWin: the last window operation
    title_in,           \* SpecTitle: the container's title and its context
    title_out,          \* SpecTitle: what _draw_title has written
    input_queue,        \* SpecInput: MockBackend.input_queue
    added,              \* SpecInput: the keys given to add_input so far
    got,                \* SpecInput: the keys returned by get_input so far
    ilast,              \* SpecInput: the last input operation
    engine,             \* SpecLife: the phase of the RenderEngine's lifetime
    backend_state,      \* SpecLife: the phase of the backend's lifetime
    backend_log,        \* SpecLife: the backend methods called so far, in order
    render_times,       \* SpecTimes: RenderEngine._render_times
    frames,             \* SpecTimes: render_frame calls whose needs_redraw was true
    style               \* FlexContainer.direction and BorderedContainer._show_border

treeVars == <<render_state, visible, children, parent, last_size, last_position,
              content, child_configs>>
engineVars == <<root_component, force_redraw, last_screen_size, frame_count, screen>>
histVars == <<calls, raised, last, steps, limit>>
flexVars == <<flex_in, flex_out>>
winVars == <<win, buffer, wlast>>
titleVars == <<title_in, title_out>>
inputVars == <<input_queue, added, got, ilast>>
lifeVars == <<engine, backend_state, backend_log>>
timeVars == <<render_times, frames>>
vars == <<treeVars, engineVars, histVars, flexVars, winVars, titleVars, inputVars,
          lifeVars, timeVars, style>>

----------------------------------------------------------------------------
(* Bounds *)

MaxSteps == 4           \* operations per behaviour of Spec
MaxAppSteps == 4        \* operations per behaviour of SpecApp
MaxChildren == 2        \* length of a children list
MaxSpace == 4           \* SpecFlex: main-axis space of the container
MaxFlexChildren == 3    \* SpecFlex: visible children of the container
MaxFixed == 2           \* SpecFlex: largest fixed_size
MaxWeight == 2          \* SpecFlex: largest flex weight
MaxMin == 1             \* SpecFlex: largest min_size
MaxMax == 1             \* SpecFlex: largest max_size
BufW == 3               \* SpecWin: MockBackend(width, height)
BufH == 2
MaxText == 3            \* SpecWin: length of a written string
MaxTitle == 4           \* SpecTitle: length of a title
MaxWidth == 8           \* SpecTitle: width of the container
MaxInputs == 4          \* SpecInput: add_input calls per behaviour
MaxLog == 14            \* SpecLife: backend calls per behaviour
MaxLayoutSteps == 4     \* SpecLayout: operations per behaviour
MaxClearSteps == 4      \* SpecClear: operations per behaviour
MaxShowSteps == 5       \* SpecShow: operations per behaviour
MaxTimeSteps == 103     \* SpecTimes: operations per behaviour

(* The components of the modelled application: one FlexContainer, one      *)
(* BorderedContainer and two user components (direct UIComponent           *)
(* subclasses, whose render_content may raise).  Spec builds its trees     *)
(* from the first three; SpecApp starts from trees assembled from all.     *)
Comp == {"F", "B", "L", "M"}
Cast == {"F", "B", "L"}
None == "None"
KindOf(c) == IF c = "F" THEN "flex" ELSE IF c = "B" THEN "bordered" ELSE "plain"
Plain == {c \in Comp : KindOf(c) = "plain"}
\* The containers' constructor arguments: FlexContainer(direction) and
\* BorderedContainer(show_border=...)
Styles == [direction : {"vertical", "horizontal"}, show_border : BOOLEAN]
DefaultStyle == [direction |-> "vertical", show_border |-> TRUE]
direction(c) == style.direction
show_border(c) == style.show_border

CLEAN == "clean"
DIRTY == "dirty"
INVALIDATED == "invalidated"
HIDDEN == "hidden"

NoSize == -1            \* Python None for fixed_size / max_size
NoConfig == [absent |-> TRUE]

Config(fixed, flex, mn, mx) ==
    [fixed_size |-> fixed, flex |-> flex, min_size |-> mn, max_size |-> mx]

(* The keyword arguments of one add_child_with_config call: given holds   *)
(* the names of the arguments the caller passes, the other fields their   *)
(* values (read only for the names in given).                             *)
Args(given, fixed, flex, mn, mx) ==
    [given |-> given, fixed_size |-> fixed, flex |-> flex, min_size |-> mn,
     max_size |-> mx]

\* The entry add_child_with_config stores: an argument that is not passed
\* takes the default of the signature (fixed_size=None, flex=0.0,
\* min_size=0, max_size=None).
with_config(args) ==
    Config(IF "fixed_size" \in args.given THEN args.fixed_size ELSE NoSize,
           IF "flex" \in args.given THEN args.flex ELSE 0,
           IF "min_size" \in args.given THEN args.min_size ELSE 0,
           IF "max_size" \in args.given THEN args.max_size ELSE NoSize)

(* The calls of add_child_with_config made in Spec: fixed_size=1, flex=1.0, *)
(* and no keyword argument at all.                                          *)
TreeArgs == {Args({"fixed_size"}, 1, 0, 0, NoSize), Args({"flex"}, NoSize, 1, 0, NoSize),
             Args({}, NoSize, 0, 0, NoSize)}

(* The configurations add_child_with_config stores in Spec. *)
TreeConfigs == {with_config(args) : args \in TreeArgs}

(* The screen sizes (height, width) the Mock backend reports in Spec. *)
InitScreen == <<4, 4>>
ScreenSizes == {<<4, 4>>, <<2, 4>>}

Op(name, c) == [op |-> name, c |-> c]
NoOp == Op("none", None)

----------------------------------------------------------------------------
(* Sequence helpers (Python list operations) *)

InSeq(s, e) == \E i \in 1..Len(s) : s[i] = e

FirstIndex(s, e) == CHOOSE i \in 1..Len(s) : s[i] = e /\ \A j \in 1..(i-1) : s[j] # e

\* list.remove(e): removes the first occurrence
ListRemove(s, e) ==
    LET k == FirstIndex(s, e)
    IN [i \in 1..(Len(s)-1) |-> IF i < k THEN s[i] ELSE s[i+1]]

Max(a, b) == IF a > b THEN a ELSE b
Min(a, b) == IF a < b THEN a ELSE b

RECURSIVE DescOrSelf(_, _)
DescOrSelf(ch, c) ==
    {c} \cup UNION {DescOrSelf(ch, ch[c][i]) : i \in 1..Len(ch[c])}

RECURSIVE AncOrSelf(_, _)
AncOrSelf(par, c) ==
    IF par[c] = None THEN {c} ELSE {c} \cup AncOrSelf(par, par[c])

----------------------------------------------------------------------------
(* UIComponent *)

\* UIComponent.render_state / get_render_state
get_render_state(rs, c) == IF ~visible[c] THEN HIDDEN ELSE rs[c]

\* mark_dirty without the test that protects INVALIDATED
RECURSIVE mark_dirty_always(_, _, _)
mark_dirty_always(rs, par, c) ==
    LET rs1 == [rs EXCEPT ![c] = DIRTY]
    IN IF par[c] # None THEN mark_dirty_always(rs1, par, par[c]) ELSE rs1

\* UIComponent.mark_dirty
RECURSIVE mark_dirty(_, _, _)
mark_dirty(rs, par, c) ==
    LET rs1 == IF rs[c] # INVALIDATED THEN [rs EXCEPT ![c] = DIRTY] ELSE rs
    IN IF par[c] # None THEN mark_dirty(rs1, par, par[c]) ELSE rs1

\* invalidate without the loop over the children
invalidate_shallow(rs, c) == [rs EXCEPT ![c] = INVALIDATED]

\* UIComponent.invalidate
RECURSIVE invalidate(_, _)
RECURSIVE invalidate_each(_, _, _)
invalidate(rs, c) ==
    invalidate_each([rs EXCEPT ![c] = INVALIDATED], children[c], 1)
invalidate_each(rs, cs, i) ==
    IF i > Len(cs) THEN rs ELSE invalidate_each(invalidate(rs, cs[i]), cs, i + 1)

----------------------------------------------------------------------------
(* FlexContainer._calculate_allocations *)

\* config.get(key, default) on a child's entry of _child_configs
HasFixed(cfg) == cfg # NoConfig /\ cfg.fixed_size # NoSize
FlexOf(cfg) == IF cfg = NoConfig THEN 1 ELSE cfg.flex
MinOf(cfg) == IF cfg = NoConfig THEN 0 ELSE cfg.min_size
MaxOf(cfg) == IF cfg = NoConfig THEN NoSize ELSE cfg.max_size

\* the share rounded up instead of truncated
FlexShare_ceiling(remaining, flex, total_flex) ==
    (remaining * flex + total_flex - 1) \div total_flex

\* int(remaining_space * (flex / total_flex)); the weights of the model are
\* whole numbers and the spaces small, where the float product truncates to
\* the exact quotient.
FlexShare(remaining, flex, total_flex) == (remaining * flex) \div total_flex

\* First pass: fixed sizes in child order, and the sum of the flex weights.
RECURSIVE first_pass(_, _, _)
first_pass(cfgs, i, acc) ==
    IF i > Len(cfgs) THEN acc
    ELSE IF HasFixed(cfgs[i])
         THEN LET size == Min(cfgs[i].fixed_size, acc.remaining_space)
              IN first_pass(cfgs, i + 1,
                     [acc EXCEPT !.allocations = Append(@, [size |-> size, flex |-> 0]),
                                 !.remaining_space = @ - size])
         ELSE LET flex == FlexOf(cfgs[i])
              IN first_pass(cfgs, i + 1,
                     [acc EXCEPT !.allocations = Append(@, [size |-> 0, flex |-> flex]),
                                 !.total_flex = @ + flex])

\* Second pass: the share of one flexible child, with its min/max applied.
flex_space(cfg, alloc, remaining_space, total_flex) ==
    LET share == FlexShare(remaining_space, alloc.flex, total_flex)
        atLeast == Max(share, MinOf(cfg))
    IN IF MaxOf(cfg) # NoSize THEN Min(atLeast, MaxOf(cfg)) ELSE atLeast

\* cfgs: the _child_configs entries of the visible children, in child order.
\* The result has one [size, flex] entry per visible child, in child order.
calculate_allocations(cfgs, total_space) ==
    IF Len(cfgs) = 0 THEN << >>
    ELSE LET p == first_pass(cfgs, 1, [allocations |-> << >>,
                                        remaining_space |-> total_space,
                                        total_flex |-> 0])
         IN IF p.total_flex > 0 /\ p.remaining_space > 0
            THEN [i \in 1..Len(cfgs) |->
                    IF p.allocations[i].flex > 0
                    THEN [size |-> flex_space(cfgs[i], p.allocations[i],
                                              p.remaining_space, p.total_flex),
                          flex |-> p.allocations[i].flex]
                    ELSE p.allocations[i]]
            ELSE p.allocations

RECURSIVE SumSizes(_, _)
SumSizes(allocs, i) == IF i > Len(allocs) THEN 0 ELSE allocs[i].size + SumSizes(allocs, i + 1)

----------------------------------------------------------------------------
(* UIComponent.render and the containers' render_content *)

\* RenderContext; the engine's frames use its root window, no theme and
\* the time of the frame
RenderContext(window, x, y, width, height, theme, frame_time) ==
    [window |-> window, x |-> x, y |-> y, width |-> width, height |-> height,
     theme |-> theme, frame_time |-> frame_time]

Ctx(x, y, width, height) == RenderContext("root_window", x, y, width, height, None, 0)

\* BorderedContainer._padding: (top, right, bottom, left)
padding(c) == IF show_border(c) THEN <<1, 1, 1, 1>> ELSE <<0, 0, 0, 0>>

\* The content's context without the offset of the padding
content_ctx_unpadded(c, ctx) ==
    LET pad == padding(c)
    IN RenderContext(ctx.window, ctx.x, ctx.y,
                     Max(0, ctx.width - pad[4] - pad[2]),
                     Max(0, ctx.height - pad[1] - pad[3]),
                     ctx.theme, ctx.frame_time)

\* The context BorderedContainer.render_content derives for its content.
content_ctx(c, ctx) ==
    LET pad == padding(c)
    IN RenderContext(ctx.window, ctx.x + pad[4], ctx.y + pad[1],
                     Max(0, ctx.width - pad[4] - pad[2]),
                     Max(0, ctx.height - pad[1] - pad[3]),
                     ctx.theme, ctx.frame_time)

\* Every child's context placed at the container's origin
child_ctx_stacked(c, ctx, cur, size) ==
    IF direction(c) = "vertical"
    THEN RenderContext(ctx.window, ctx.x, ctx.y, ctx.width, size, ctx.theme, ctx.frame_time)
    ELSE RenderContext(ctx.window, ctx.x, ctx.y, size, ctx.height, ctx.theme, ctx.frame_time)

\* The context FlexContainer.render_content derives for a child placed at
\* main-axis position cur with the allocated size.
child_ctx(c, ctx, cur, size) ==
    IF direction(c) = "vertical"
    THEN RenderContext(ctx.window, ctx.x, cur, ctx.width, size, ctx.theme, ctx.frame_time)
    ELSE RenderContext(ctx.window, cur, ctx.y, size, ctx.height, ctx.theme, ctx.frame_time)

\* visible_children of FlexContainer._calculate_allocations
visible_children(c) == SelectSeq(children[c], LAMBDA d : visible[d])

\* The geometry check that compares the sizes only
check_geometry_size_only(W, c, ctx) ==
    LET current_size == <<ctx.width, ctx.height>>
        current_pos == <<ctx.x, ctx.y>>
    IN IF current_size # W.ls[c]
       THEN [W EXCEPT !.rs = invalidate(W.rs, c),
                      !.ls[c] = current_size,
                      !.lp[c] = current_pos]
       ELSE W

\* The geometry check of UIComponent.render: a context of another size or
\* position than the remembered one invalidates the component and is
\* remembered.
check_geometry(W, c, ctx) ==
    LET current_size == <<ctx.width, ctx.height>>
        current_pos == <<ctx.x, ctx.y>>
    IN IF current_size # W.ls[c] \/ current_pos # W.lp[c]
       THEN [W EXCEPT !.rs = invalidate(W.rs, c),
                      !.ls[c] = current_size,
                      !.lp[c] = current_pos]
       ELSE W

\* W is the part of the tree a render pass changes, with the pass's record:
\* [rs: _render_state, ls: _last_size, lp: _last_position,
\*  calls: render_content invocations, raised: components that raised].
\* fails is the set of user components whose render_content raises in this pass.
RECURSIVE render(_, _, _, _)
RECURSIVE render_children(_, _, _, _, _)
RECURSIVE flex_render_each(_, _, _, _, _, _, _, _)

\* FlexContainer.render_content
flex_render_content(W, c, ctx, fails) ==
    IF Len(children[c]) = 0 THEN W
    ELSE LET vis == visible_children(c)
             cfgs == [i \in 1..Len(vis) |-> child_configs[c][vis[i]]]
             total_space == IF direction(c) = "vertical" THEN ctx.height ELSE ctx.width
             allocations == calculate_allocations(cfgs, total_space)
             start == IF direction(c) = "vertical" THEN ctx.y ELSE ctx.x
         IN flex_render_each(W, c, ctx, vis, allocations, 1, start, fails)

flex_render_each(W, c, ctx, vis, allocations, i, cur, fails) ==
    IF i > Len(vis) THEN W
    ELSE IF allocations[i].size > 0
         THEN flex_render_each(
                  render(W, vis[i], child_ctx(c, ctx, cur, allocations[i].size), fails),
                  c, ctx, vis, allocations, i + 1, cur + allocations[i].size, fails)
         ELSE flex_render_each(W, c, ctx, vis, allocations, i + 1, cur, fails)

\* BorderedContainer.render_content
bordered_render_content(W, c, ctx, fails) ==
    LET cctx == content_ctx(c, ctx)
    IN IF content[c] # None /\ cctx.width > 0 /\ cctx.height > 0
       THEN render(W, content[c], cctx, fails)
       ELSE W

render_content(W, c, ctx, fails) ==
    CASE KindOf(c) = "flex" -> flex_render_content(W, c, ctx, fails)
      [] KindOf(c) = "bordered" -> bordered_render_content(W, c, ctx, fails)
      [] OTHER -> W

\* The try block of UIComponent.render: render_content, then mark_clean;
\* an exception of render_content leaves the block before mark_clean.
try_render_content(W, c, ctx, fails) ==
    LET W1 == [W EXCEPT !.calls[c] = @ + 1]
    IN IF c \in fails
       THEN [W1 EXCEPT !.raised = @ \cup {c}]
       ELSE [render_content(W1, c, ctx, fails) EXCEPT !.rs[c] = CLEAN]

\* _render_children that stops at the first child whose render_content raised
render_children_stop(W, c, ctx, i, fails) ==
    IF KindOf(c) # "plain" \/ i > Len(children[c]) \/ W.raised # {} THEN W
    ELSE IF visible[children[c][i]]
         THEN render_children(render(W, children[c][i], ctx, fails), c, ctx, i + 1, fails)
         ELSE render_children(W, c, ctx, i + 1, fails)

\* UIComponent._render_children, overridden to do nothing by both containers
render_children(W, c, ctx, i, fails) ==
    IF KindOf(c) # "plain" \/ i > Len(children[c]) THEN W
    ELSE IF visible[children[c][i]]
         THEN render_children(render(W, children[c][i], ctx, fails), c, ctx, i + 1, fails)
         ELSE render_children(W, c, ctx, i + 1, fails)

\* render without the test for HIDDEN
render_unchecked(W, c, ctx, fails) ==
    LET W1 == check_geometry(W, c, ctx)
        W2 == IF W1.rs[c] \in {DIRTY, INVALIDATED}
              THEN try_render_content(W1, c, ctx, fails)
              ELSE W1
    IN render_children(W2, c, ctx, 1, fails)

\* UIComponent.render
render(W, c, ctx, fails) ==
    IF get_render_state(W.rs, c) = HIDDEN THEN W
    ELSE LET W1 == check_geometry(W, c, ctx)
             W2 == IF W1.rs[c] \in {DIRTY, INVALIDATED}
                   THEN try_render_content(W1, c, ctx, fails)
                   ELSE W1
         IN render_children(W2, c, ctx, 1, fails)

----------------------------------------------------------------------------
(* Initial state: the components and the engine right after construction. *)

InitTree ==
    /\ render_state = [c \in Comp |-> DIRTY]
    /\ visible = [c \in Comp |-> TRUE]
    /\ children = [c \in Comp |-> << >>]
    /\ parent = [c \in Comp |-> None]
    /\ last_size = [c \in Comp |-> <<0, 0>>]
    /\ last_position = [c \in Comp |-> <<0, 0>>]
    /\ content = [c \in Comp |-> None]
    /\ child_configs = [c \in Comp |-> [d \in Comp |-> NoConfig]]

InitEngine ==
    /\ root_component = None
    /\ force_redraw = TRUE
    /\ last_screen_size = <<0, 0>>
    /\ frame_count = 0
    /\ screen = InitScreen

InitHist ==
    /\ calls = [c \in Comp |-> 0]
    /\ raised = {}
    /\ last = NoOp
    /\ steps = 0
    /\ limit = MaxSteps

NotAllocated == [done |-> FALSE, allocations |-> << >>]

InitFlexIdle == flex_in = [space |-> 0, cfgs |-> << >>] /\ flex_out = NotAllocated

\* MockBackend.__init__: the screen buffer is blank
BlankBuffer == [r \in 0..(BufH - 1) |-> [k \in 0..(BufW - 1) |-> " "]]

WindowSpec(width, height, x, y) == [width |-> width, height |-> height, x |-> x, y |-> y]

InitWinIdle ==
    /\ win = WindowSpec(BufW, BufH, 0, 0)
    /\ buffer = BlankBuffer
    /\ wlast = NoOp

NotDrawn == [done |-> FALSE, drawn |-> FALSE, y |-> 0, x |-> 0, text |-> << >>]

InitTitleIdle ==
    /\ title_in = [title |-> << >>, x |-> 0, y |-> 0, width |-> 0]
    /\ title_out = NotDrawn

\* MockBackend.__init__: the input queue is empty
InitInputIdle ==
    /\ input_queue = << >>
    /\ added = << >>
    /\ got = << >>
    /\ ilast = NoOp

InitLifeIdle ==
    /\ engine = "none"
    /\ backend_state = "uninitialized"
    /\ backend_log = << >>

\* RenderEngine.__init__: no sample, no frame
\* FlexContainer() and BorderedContainer() with their default arguments
InitStyle == style = DefaultStyle

InitTimesIdle ==
    /\ render_times = << >>
    /\ frames = 0

Init ==
    /\ InitTree /\ InitEngine /\ InitHist
    /\ InitFlexIdle /\ InitWinIdle /\ InitTitleIdle /\ InitInputIdle
    /\ InitLifeIdle /\ InitTimesIdle /\ InitStyle

----------------------------------------------------------------------------
(* Operations on the component tree *)

\* Every operation is recorded in the history.
Record(op) ==
    /\ steps < limit
    /\ steps' = steps + 1
    /\ limit' = limit
    /\ last' = op

\* Attaching c below p must not make a component its own ancestor: the
\* recursions of mark_dirty and invalidate do not terminate on a cycle.
Attachable(p, c) ==
    /\ c # p
    /\ p \notin DescOrSelf(children, c)
    /\ Len(children[p]) < MaxChildren

\* c was painted by the frame that has just run, in a non-empty region.
PaintedInLastFrame(c) ==
    /\ last.op = "render_frame"
    /\ last.ran
    /\ calls[c] > 0
    /\ last_size[c][1] > 0
    /\ last_size[c][2] > 0

\* c.mark_dirty().  The history notes whether the call follows directly a
\* frame that painted c in a non-empty region.
MarkDirty(c) ==
    /\ Record([op |-> "mark_dirty", c |-> c, painted |-> PaintedInLastFrame(c)])
    /\ render_state' = mark_dirty(render_state, parent, c)
    /\ UNCHANGED <<visible, children, parent, last_size, last_position, content,
                   child_configs, engineVars, calls, raised, flexVars, winVars,
                   titleVars, inputVars, lifeVars, timeVars, style>>

\* c.invalidate()
Invalidate(c) ==
    /\ Record(Op("invalidate", c))
    /\ render_state' = invalidate(render_state, c)
    /\ UNCHANGED <<visible, children, parent, last_size, last_position, content,
                   child_configs, engineVars, calls, raised, flexVars, winVars,
                   titleVars, inputVars, lifeVars, timeVars, style>>

\* set_visible without the test that the flag changes
SetVisible_always(c, flag) ==
    /\ Record([op |-> "set_visible", c |-> c, flag |-> flag,
               before |-> get_render_state(render_state, c),
               after_hide |-> /\ last.op = "set_visible" /\ last.c = c
                              /\ ~last.flag /\ ~visible[c] /\ flag])
    /\ visible' = [visible EXCEPT ![c] = flag]
    /\ render_state' = IF parent[c] # None
                       THEN mark_dirty(render_state, parent, parent[c])
                       ELSE render_state
    /\ UNCHANGED <<children, parent, last_size, last_position, content,
                   child_configs, engineVars, calls, raised, flexVars, winVars,
                   titleVars, inputVars, lifeVars, timeVars, style>>

\* c.set_visible(flag).  The history notes the state c reported before the
\* call, and whether the call shows c directly after the call that hid it.
SetVisible(c, flag) ==
    /\ Record([op |-> "set_visible", c |-> c, flag |-> flag,
               before |-> get_render_state(render_state, c),
               after_hide |-> /\ last.op = "set_visible" /\ last.c = c
                              /\ ~last.flag /\ ~visible[c] /\ flag])
    /\ visible' = IF visible[c] # flag THEN [visible EXCEPT ![c] = flag] ELSE visible
    /\ render_state' = IF visible[c] # flag /\ parent[c] # None
                       THEN mark_dirty(render_state, parent, parent[c])
                       ELSE render_state
    /\ UNCHANGED <<children, parent, last_size, last_position, content,
                   child_configs, engineVars, calls, raised, flexVars, winVars,
                   titleVars, inputVars, lifeVars, timeVars, style>>

\* p.add_child(c)
AddChild(p, c) ==
    /\ Attachable(p, c)
    /\ c \notin AncOrSelf(parent, p)
    /\ Record([op |-> "add_child", c |-> c, p |-> p])
    /\ parent' = [parent EXCEPT ![c] = p]
    /\ children' = [children EXCEPT ![p] = Append(@, c)]
    /\ render_state' = mark_dirty(render_state, parent', p)
    /\ UNCHANGED <<visible, last_size, last_position, content, child_configs,
                   engineVars, calls, raised, flexVars, winVars,
                   titleVars, inputVars, lifeVars, timeVars, style>>

\* p.remove_child(c)
RemoveChild(p, c) ==
    /\ InSeq(children[p], c)
    /\ Record([op |-> "remove_child", c |-> c, p |-> p])
    /\ parent' = [parent EXCEPT ![c] = None]
    /\ children' = [children EXCEPT ![p] = ListRemove(@, c)]
    /\ render_state' = mark_dirty(render_state, parent', p)
    /\ UNCHANGED <<visible, last_size, last_position, content, child_configs,
                   engineVars, calls, raised, flexVars, winVars,
                   titleVars, inputVars, lifeVars, timeVars, style>>

\* f.add_child_with_config(c, fixed_size, flex, min_size, max_size)
AddChildWithConfig(f, c, args) ==
    /\ KindOf(f) = "flex"
    /\ Attachable(f, c)
    /\ c \notin AncOrSelf(parent, f)
    /\ Record([op |-> "add_child_with_config", c |-> c, p |-> f,
               given |-> args.given])
    /\ parent' = [parent EXCEPT ![c] = f]
    /\ children' = [children EXCEPT ![f] = Append(@, c)]
    /\ render_state' = mark_dirty(render_state, parent', f)
    /\ child_configs' = [child_configs EXCEPT ![f][c] = with_config(args)]
    /\ UNCHANGED <<visible, last_size, last_position, content,
                   engineVars, calls, raised, flexVars, winVars,
                   titleVars, inputVars, lifeVars, timeVars, style>>

\* set_content that leaves the old content in the children list
SetContent_keep_old(b, c) ==
    /\ KindOf(b) = "bordered"
    /\ c # None => /\ c # b
                   /\ b \notin DescOrSelf(children, c)
                   /\ Len(children[b]) < MaxChildren
    /\ children' = [children EXCEPT ![b] = IF c # None THEN Append(@, c) ELSE @]
    /\ Record([op |-> "set_content", c |-> c, p |-> b, old |-> content[b]])
    /\ content' = [content EXCEPT ![b] = c]
    /\ render_state' = mark_dirty(render_state, parent, b)
    /\ UNCHANGED <<visible, parent, last_size, last_position, child_configs,
                   engineVars, calls, raised, flexVars, winVars,
                   titleVars, inputVars, lifeVars, timeVars, style>>

\* b.set_content(c), c a component or None.  list.remove raises ValueError
\* before anything is changed when the old content is no longer a child.
SetContent(b, c) ==
    /\ KindOf(b) = "bordered"
    /\ content[b] # None => InSeq(children[b], content[b])
    /\ LET removed == IF content[b] # None
                      THEN ListRemove(children[b], content[b])
                      ELSE children[b]
       IN /\ c # None => /\ c # b
                         /\ b \notin DescOrSelf(children, c)
                         /\ Len(removed) < MaxChildren
          /\ children' = [children EXCEPT ![b] = IF c # None THEN Append(removed, c)
                                                  ELSE removed]
    /\ Record([op |-> "set_content", c |-> c, p |-> b, old |-> content[b]])
    /\ content' = [content EXCEPT ![b] = c]
    /\ render_state' = mark_dirty(render_state, parent, b)
    /\ UNCHANGED <<visible, parent, last_size, last_position, child_configs,
                   engineVars, calls, raised, flexVars, winVars,
                   titleVars, inputVars, lifeVars, timeVars, style>>

----------------------------------------------------------------------------
(* RenderEngine *)

\* RenderEngine.needs_redraw: its result and its side effects
needs_redraw ==
    IF screen # last_screen_size
    THEN [result |-> TRUE,
          last_screen_size |-> screen,
          rs |-> IF root_component # None THEN invalidate(render_state, root_component)
                 ELSE render_state]
    ELSE [result |-> \/ force_redraw
                     \/ /\ root_component # None
                        /\ get_render_state(render_state, root_component)
                               \in {DIRTY, INVALIDATED},
          last_screen_size |-> last_screen_size,
          rs |-> render_state]

\* engine.set_root_component(c)
SetRootComponent(c) ==
    /\ Record(Op("set_root_component", c))
    /\ root_component' = c
    /\ force_redraw' = TRUE
    /\ UNCHANGED <<treeVars, last_screen_size, frame_count, screen, calls, raised,
                   flexVars, winVars,
                   titleVars, inputVars, lifeVars, timeVars, style>>

\* engine.needs_redraw()
NeedsRedraw ==
    /\ Record([op |-> "needs_redraw", c |-> None, result |-> needs_redraw.result])
    /\ last_screen_size' = needs_redraw.last_screen_size
    /\ render_state' = needs_redraw.rs
    /\ UNCHANGED <<visible, children, parent, last_size, last_position, content,
                   child_configs, root_component, force_redraw, frame_count, screen,
                   calls, raised, flexVars, winVars,
                   titleVars, inputVars, lifeVars, timeVars, style>>

\* engine.force_redraw()
ForceRedraw ==
    /\ Record(Op("force_redraw", None))
    /\ force_redraw' = TRUE
    /\ render_state' = IF root_component # None
                       THEN invalidate(render_state, root_component)
                       ELSE render_state
    /\ UNCHANGED <<visible, children, parent, last_size, last_position, content,
                   child_configs, root_component, last_screen_size, frame_count, screen,
                   calls, raised, flexVars, winVars,
                   titleVars, inputVars, lifeVars, timeVars, style>>

\* The steps of render_frame at which the backend or the root can fail:
\* backend.get_screen_size() and root.invalidate() inside needs_redraw(),
\* root_window.clear(), the construction of the context (the second
\* get_screen_size()), backend.refresh().
Faults == {"none", "get_screen_size", "invalidate", "clear", "context", "refresh"}

\* The fault is at a step this call of render_frame reaches.
FaultReached(fault) ==
    CASE fault = "none" -> TRUE
      [] fault = "get_screen_size" -> TRUE
      [] fault = "invalidate" -> screen # last_screen_size /\ root_component # None
      [] fault = "clear" -> needs_redraw.result /\ force_redraw
      [] fault = "context" -> needs_redraw.result /\ root_component # None
      [] fault = "refresh" -> needs_redraw.result

\* needs_redraw() is called before the try block: what it raises leaves
\* render_frame.
OutsideTry == {"get_screen_size", "invalidate"}

\* engine.render_frame() but for the backend's buffer and the render-time
\* history; fails: the user components whose render_content
\* raises during this frame (exactly those that are invoked and raise, so
\* that one frame is not counted once per unused choice); fault: the step
\* of the frame that raises, if any.
RenderFrameCore(fails, fault) ==
    LET nr == needs_redraw
        W0 == [rs |-> IF fault \in OutsideTry THEN render_state ELSE nr.rs,
               ls |-> last_size, lp |-> last_position,
               calls |-> [c \in Comp |-> 0], raised |-> {}]
        ctx == Ctx(0, 0, screen[2], screen[1])
        rendered == nr.result /\ fault \in {"none", "refresh"}
        counted == nr.result /\ fault \notin OutsideTry
        W == IF rendered /\ root_component # None
             THEN render(W0, root_component, ctx, fails)
             ELSE W0
    IN /\ FaultReached(fault)
       /\ Record([op |-> "render_frame", c |-> None, ran |-> rendered,
                  fault |-> fault,
                  propagated |-> fault \in OutsideTry,
                  flushed |-> nr.result /\ fault = "none"])
       /\ fails = W.raised
       /\ last_screen_size' = IF fault = "get_screen_size" THEN last_screen_size
                              ELSE nr.last_screen_size
       /\ render_state' = W.rs
       /\ last_size' = W.ls
       /\ last_position' = W.lp
       /\ calls' = W.calls
       /\ raised' = W.raised
       /\ force_redraw' = IF counted THEN FALSE ELSE force_redraw
       /\ frame_count' = IF counted THEN frame_count + 1 ELSE frame_count
       /\ UNCHANGED <<visible, children, parent, content, child_configs,
                      root_component, screen, flexVars,
                      titleVars, inputVars, lifeVars, style>>

\* A frame of an engine whose backend's buffer and render-time history are
\* not looked at
RenderFrame(fails, fault) ==
    /\ RenderFrameCore(fails, fault)
    /\ UNCHANGED <<winVars, timeVars>>

\* The terminal is resized: the Mock backend's width/height are reassigned.
Resize(size) ==
    /\ size # screen
    /\ Record(Op("resize", None))
    /\ screen' = size
    /\ UNCHANGED <<treeVars, root_component, force_redraw, last_screen_size,
                   frame_count, calls, raised, flexVars, winVars,
                   titleVars, inputVars, lifeVars, timeVars, style>>

\* Spec calls set_visible with the flag the component does not have, and
\* lets no backend call fail; SpecApp does both.
Next ==
    \/ \E c \in Cast : MarkDirty(c)
    \/ \E c \in Cast : Invalidate(c)
    \/ \E c \in Cast : SetVisible(c, ~visible[c])
    \/ \E p, c \in Cast : AddChild(p, c)
    \/ \E p, c \in Cast : RemoveChild(p, c)
    \/ \E f, c \in Cast, args \in TreeArgs : AddChildWithConfig(f, c, args)
    \/ \E b \in Cast, c \in Cast \cup {None} : SetContent(b, c)
    \/ \E c \in Cast : SetRootComponent(c)
    \/ NeedsRedraw
    \/ ForceRedraw
    \/ \E fails \in SUBSET (Plain \cap Cast) : RenderFrame(fails, "none")
    \/ \E size \in ScreenSizes : Resize(size)

Spec == Init /\ [][Next]_vars

----------------------------------------------------------------------------
(* SpecFlex: FlexContainer._calculate_allocations as a function of the      *)
(* container's main-axis space and its visible children's configurations.  *)

\* A child is configured with a fixed size, or as a flexible child with a
\* weight, with or without a min_size and a max_size, or was attached by
\* add_child (no entry).
FlexConfigs ==
    {Config(fx, 0, 0, NoSize) : fx \in 0..MaxFixed}
    \cup {Config(NoSize, w, mn, mx) : w \in 0..MaxWeight, mn \in {0, MaxMin},
                                       mx \in {NoSize, MaxMax}}
    \cup {NoConfig}

SeqsUpTo(S, n) == UNION {[1..k -> S] : k \in 0..n}

InitFlex ==
    /\ InitTree /\ InitEngine /\ InitHist /\ InitWinIdle
    /\ InitTitleIdle /\ InitInputIdle
    /\ InitLifeIdle /\ InitTimesIdle /\ InitStyle
    /\ \E space \in 0..MaxSpace, cfgs \in SeqsUpTo(FlexConfigs, MaxFlexChildren) :
          flex_in = [space |-> space, cfgs |-> cfgs]
    /\ flex_out = NotAllocated

Allocate ==
    /\ ~flex_out.done
    /\ flex_out' = [done |-> TRUE,
                    allocations |-> calculate_allocations(flex_in.cfgs, flex_in.space)]
    /\ UNCHANGED <<flex_in, treeVars, engineVars, histVars, winVars,
                   titleVars, inputVars, lifeVars, timeVars, style>>

NextFlex == Allocate

SpecFlex == InitFlex /\ [][NextFlex]_vars

----------------------------------------------------------------------------
(* SpecWin: MockWindow writes into the MockBackend's shared buffer.        *)

Chars == {"x"}
Texts == SeqsUpTo(Chars, MaxText)
WindowSpecs == {WindowSpec(w, h, x, y) : w \in 1..BufW, h \in 1..BufH,
                                          x \in 0..1, y \in 0..1}

(* The sizes (height, width) backend.height / backend.width are reassigned  *)
(* to; the screen buffer keeps the dimensions it was constructed with.     *)
WinSizes == {<<BufH, BufW>>, <<BufH, BufW + 1>>, <<BufH + 1, BufW>>}

\* The bounds check of MockWindow.add_str / add_ch for the cell (abs_y, abs_x)
in_backend(abs_y, abs_x) ==
    /\ 0 <= abs_y /\ abs_y < screen[1]
    /\ 0 <= abs_x /\ abs_x < screen[2]

\* screen_buffer[abs_y][abs_x] exists (indices that pass the check are >= 0)
in_buffer(buf, abs_y, abs_x) ==
    /\ abs_y \in DOMAIN buf
    /\ abs_x \in DOMAIN buf[abs_y]

\* The characters of text whose assignment raises IndexError
add_str_bad(buf, spec, y, x, text) ==
    {i \in 0..(Len(text) - 1) : /\ in_backend(spec.y + y, spec.x + x + i)
                                /\ ~in_buffer(buf, spec.y + y, spec.x + x + i)}

\* MockWindow.add_str raises
add_str_raises(buf, spec, y, x, text) == add_str_bad(buf, spec, y, x, text) # {}

\* MockWindow.add_str: the screen buffer after the call (the characters
\* before the first failing assignment are written)
add_str(buf, spec, y, x, text) ==
    LET abs_y == spec.y + y
        abs_x == spec.x + x
        bad == add_str_bad(buf, spec, y, x, text)
    IN [r \in DOMAIN buf |-> [k \in DOMAIN buf[r] |->
          IF /\ r = abs_y
             /\ \E i \in 0..(Len(text) - 1) :
                   /\ abs_x + i = k
                   /\ in_backend(abs_y, abs_x + i)
                   /\ \A j \in bad : i < j
          THEN text[k - abs_x + 1]
          ELSE buf[r][k]]]

\* MockWindow.add_ch raises (ch a one-character string)
add_ch_raises(buf, spec, y, x, ch) ==
    /\ in_backend(spec.y + y, spec.x + x)
    /\ ~in_buffer(buf, spec.y + y, spec.x + x)

\* MockWindow.add_ch: the screen buffer after the call
add_ch(buf, spec, y, x, ch) ==
    [r \in DOMAIN buf |-> [k \in DOMAIN buf[r] |->
        IF r = spec.y + y /\ k = spec.x + x /\ in_backend(r, k)
        THEN ch ELSE buf[r][k]]]

InitWin ==
    /\ InitTree /\ InitHist /\ InitFlexIdle /\ InitTitleIdle /\ InitInputIdle
    /\ InitLifeIdle /\ InitTimesIdle /\ InitStyle
    /\ root_component = None
    /\ force_redraw = TRUE
    /\ last_screen_size = <<0, 0>>
    /\ frame_count = 0
    /\ screen = <<BufH, BufW>>
    /\ win = WindowSpec(BufW, BufH, 0, 0)
    /\ buffer = BlankBuffer
    /\ wlast = NoOp

\* backend.create_window(spec): the window the following writes go to
CreateWindow(spec) ==
    /\ win' = spec
    /\ wlast' = Op("create_window", None)
    /\ UNCHANGED <<buffer, treeVars, engineVars, histVars, flexVars,
                   titleVars, inputVars, lifeVars, timeVars, style>>

\* window.add_str(y, x, text)
AddStr(y, x, text) ==
    /\ buffer' = add_str(buffer, win, y, x, text)
    /\ wlast' = [op |-> "add_str", c |-> None,
                 error |-> add_str_raises(buffer, win, y, x, text)]
    /\ UNCHANGED <<win, treeVars, engineVars, histVars, flexVars,
                   titleVars, inputVars, lifeVars, timeVars, style>>

\* window.add_ch(y, x, ch)
AddCh(y, x, ch) ==
    /\ buffer' = add_ch(buffer, win, y, x, ch)
    /\ wlast' = [op |-> "add_ch", c |-> None,
                 error |-> add_ch_raises(buffer, win, y, x, ch)]
    /\ UNCHANGED <<win, treeVars, engineVars, histVars, flexVars,
                   titleVars, inputVars, lifeVars, timeVars, style>>

\* MockWindow.clear: the screen buffer after the call
clear(buf, spec) ==
    [r \in DOMAIN buf |-> [k \in DOMAIN buf[r] |->
        IF /\ spec.y <= r /\ r < Min(spec.y + spec.height, screen[1])
           /\ spec.x <= k /\ k < Min(spec.x + spec.width, screen[2])
        THEN " " ELSE buf[r][k]]]

\* window.clear()
Clear ==
    /\ buffer' = clear(buffer, win)
    /\ wlast' = Op("clear", None)
    /\ UNCHANGED <<win, treeVars, engineVars, histVars, flexVars,
                   titleVars, inputVars, lifeVars, timeVars, style>>

\* backend.width / backend.height are reassigned (a simulated resize)
WinResize(size) ==
    /\ size # screen
    /\ screen' = size
    /\ wlast' = Op("resize", None)
    /\ UNCHANGED <<win, buffer, treeVars, root_component, force_redraw,
                   last_screen_size, frame_count, histVars, flexVars,
                   titleVars, inputVars, lifeVars, timeVars, style>>

NextWin ==
    \/ \E spec \in WindowSpecs : CreateWindow(spec)
    \/ \E y \in (-1)..BufH, x \in (-1)..BufW, text \in Texts : AddStr(y, x, text)
    \/ \E y \in (-1)..BufH, x \in (-1)..BufW, ch \in Chars : AddCh(y, x, ch)
    \/ Clear
    \/ \E size \in WinSizes : WinResize(size)

SpecWin == InitWin /\ [][NextWin]_vars

----------------------------------------------------------------------------
(* SpecTitle: BorderedContainer._draw_title as a function of the title and *)
(* the container's context.                                                *)

TitleChars == {"a", "b"}
Titles == SeqsUpTo(TitleChars, MaxTitle)

\* Python text[:n]: the first n characters, all but the last -n when n < 0
py_prefix(text, n) ==
    IF n >= 0 THEN SubSeq(text, 1, Min(n, Len(text)))
    ELSE SubSeq(text, 1, Max(Len(text) + n, 0))

\* f" {self._title} "
title_text(title) == <<" ">> \o title \o <<" ">>

Ellipsis == <<".", ".", ".">>

\* BorderedContainer._draw_title: the add_str call it makes, if any
draw_title(title, ctx) ==
    IF title = << >> \/ ctx.width < 6
    THEN [done |-> TRUE, drawn |-> FALSE, y |-> 0, x |-> 0, text |-> << >>]
    ELSE LET max_title_width == ctx.width - 4
             text == IF Len(title_text(title)) > max_title_width
                     THEN py_prefix(title_text(title), max_title_width - 3) \o Ellipsis
                     ELSE title_text(title)
             title_x == ctx.x + ((ctx.width - Len(text)) \div 2)
         IN [done |-> TRUE, drawn |-> TRUE, y |-> ctx.y, x |-> title_x, text |-> text]

InitTitle ==
    /\ InitTree /\ InitEngine /\ InitHist
    /\ InitFlexIdle /\ InitWinIdle /\ InitInputIdle
    /\ InitLifeIdle /\ InitTimesIdle /\ InitStyle
    /\ \E title \in Titles, x \in 0..1, width \in 0..MaxWidth :
          title_in = [title |-> title, x |-> x, y |-> 0, width |-> width]
    /\ title_out = NotDrawn

DrawTitle ==
    /\ ~title_out.done
    /\ title_out' = draw_title(title_in.title, title_in)
    /\ UNCHANGED <<title_in, treeVars, engineVars, histVars, flexVars, winVars,
                   inputVars, lifeVars, timeVars, style>>

NextTitle == DrawTitle

SpecTitle == InitTitle /\ [][NextTitle]_vars

----------------------------------------------------------------------------
(* SpecInput: the MockBackend's synthetic input queue.                     *)

Keys == {113, 116}        \* ord("q"), ord("t")
Timeouts == {-1, 0, 100}
Sentinel == -1

\* get_input that takes the newest key
get_input_newest(queue, timeout) ==
    IF queue # << >>
    THEN [result |-> queue[Len(queue)], queue |-> SubSeq(queue, 1, Len(queue) - 1)]
    ELSE [result |-> Sentinel, queue |-> queue]

\* MockBackend.get_input: the value returned and the queue left
get_input(queue, timeout) ==
    IF queue # << >>
    THEN [result |-> Head(queue), queue |-> Tail(queue)]
    ELSE [result |-> Sentinel, queue |-> queue]

InitInput ==
    /\ InitTree /\ InitEngine /\ InitHist
    /\ InitFlexIdle /\ InitWinIdle /\ InitTitleIdle /\ InitInputIdle
    /\ InitLifeIdle /\ InitTimesIdle /\ InitStyle

\* backend.add_input(key)
AddInput(key) ==
    /\ Len(added) < MaxInputs
    /\ input_queue' = Append(input_queue, key)
    /\ added' = Append(added, key)
    /\ ilast' = [op |-> "add_input", c |-> None]
    /\ UNCHANGED <<got, treeVars, engineVars, histVars, flexVars, winVars, titleVars, lifeVars, timeVars, style>>

\* backend.get_input(timeout)
GetInput(timeout) ==
    LET g == get_input(input_queue, timeout)
    IN /\ input_queue' = g.queue
       /\ got' = IF input_queue # << >> THEN Append(got, g.result) ELSE got
       /\ ilast' = [op |-> "get_input", c |-> None, timeout |-> timeout,
                    empty |-> input_queue = << >>, result |-> g.result]
       /\ UNCHANGED <<added, treeVars, engineVars, histVars, flexVars, winVars,
                      titleVars, lifeVars, timeVars, style>>

NextInput ==
    \/ \E key \in Keys : AddInput(key)
    \/ \E timeout \in Timeouts : GetInput(timeout)

SpecInput == InitInput /\ [][NextInput]_vars

----------------------------------------------------------------------------
(* SpecApp: the engine driving a tree that the application has assembled   *)
(* before the first frame.  No component has been rendered yet: every one  *)
(* is DIRTY and visible and remembers the geometry (0, 0).                 *)

NoChildren == [c \in Comp |-> << >>]
NoParents == [c \in Comp |-> None]
NoConfigs == [c \in Comp |-> [d \in Comp |-> NoConfig]]

\* An application frame: F.add_child_with_config(L, fixed_size=1);
\* F.add_child_with_config(B, flex=1.0); B.set_content(M);
\* engine.set_root_component(F)
FrameTree ==
    [root |-> "F",
     children |-> [NoChildren EXCEPT !["F"] = <<"L", "B">>, !["B"] = <<"M">>],
     parent |-> [NoParents EXCEPT !["L"] = "F", !["B"] = "F"],
     content |-> [NoParents EXCEPT !["B"] = "M"],
     child_configs |-> [NoConfigs EXCEPT !["F"]["L"] = Config(1, 0, 0, NoSize),
                                         !["F"]["B"] = Config(NoSize, 1, 0, NoSize)]]

\* A user composite: L.add_child(M); L.add_child(F); F.add_child(B);
\* engine.set_root_component(L)
CompositeTree ==
    [root |-> "L",
     children |-> [NoChildren EXCEPT !["L"] = <<"M", "F">>, !["F"] = <<"B">>],
     parent |-> [NoParents EXCEPT !["M"] = "L", !["F"] = "L", !["B"] = "F"],
     content |-> NoParents,
     child_configs |-> NoConfigs]

AppTrees == {FrameTree, CompositeTree}

InitApp ==
    /\ \E t \in AppTrees :
          /\ children = t.children
          /\ parent = t.parent
          /\ content = t.content
          /\ child_configs = t.child_configs
          /\ root_component = t.root
    /\ render_state = [c \in Comp |-> DIRTY]
    /\ visible = [c \in Comp |-> TRUE]
    /\ last_size = [c \in Comp |-> <<0, 0>>]
    /\ last_position = [c \in Comp |-> <<0, 0>>]
    /\ force_redraw = TRUE
    /\ last_screen_size = <<0, 0>>
    /\ frame_count = 0
    /\ screen = InitScreen
    /\ calls = [c \in Comp |-> 0]
    /\ raised = {}
    /\ last = NoOp
    /\ steps = 0
    /\ limit = MaxAppSteps
    /\ InitFlexIdle /\ InitWinIdle /\ InitTitleIdle /\ InitInputIdle
    /\ InitLifeIdle /\ InitTimesIdle /\ InitStyle

NextApp ==
    \/ \E c \in Comp : MarkDirty(c)
    \/ \E c \in Comp : Invalidate(c)
    \/ \E c \in Comp, flag \in BOOLEAN : SetVisible(c, flag)
    \/ NeedsRedraw
    \/ ForceRedraw
    \/ \E fails \in SUBSET Plain, fault \in Faults : RenderFrame(fails, fault)
    \/ \E size \in ScreenSizes : Resize(size)

SpecApp == InitApp /\ [][NextApp]_vars

----------------------------------------------------------------------------
(* SpecLayout: the geometry the containers hand down.  The assembled trees *)
(* of SpecApp, with the containers built in either direction and with or   *)
(* without a border, driven by frames, set_visible and resizes.            *)

InitLayout ==
    /\ \E t \in AppTrees :
          /\ children = t.children
          /\ parent = t.parent
          /\ content = t.content
          /\ child_configs = t.child_configs
          /\ root_component = t.root
    /\ style \in Styles
    /\ render_state = [c \in Comp |-> DIRTY]
    /\ visible = [c \in Comp |-> TRUE]
    /\ last_size = [c \in Comp |-> <<0, 0>>]
    /\ last_position = [c \in Comp |-> <<0, 0>>]
    /\ force_redraw = TRUE
    /\ last_screen_size = <<0, 0>>
    /\ frame_count = 0
    /\ screen = InitScreen
    /\ calls = [c \in Comp |-> 0]
    /\ raised = {}
    /\ last = NoOp
    /\ steps = 0
    /\ limit = MaxLayoutSteps
    /\ InitFlexIdle /\ InitWinIdle /\ InitTitleIdle /\ InitInputIdle
    /\ InitLifeIdle /\ InitTimesIdle

NextLayout ==
    \/ \E c \in Comp : SetVisible(c, ~visible[c])
    \/ \E fails \in SUBSET Plain : RenderFrame(fails, "none")
    \/ \E size \in ScreenSizes : Resize(size)

SpecLayout == InitLayout /\ [][NextLayout]_vars

----------------------------------------------------------------------------
(* SpecShow: components of an assembled tree are hidden and shown between  *)
(* frames in which no render_content raises.                               *)

InitShow ==
    /\ \E t \in AppTrees :
          /\ children = t.children
          /\ parent = t.parent
          /\ content = t.content
          /\ child_configs = t.child_configs
          /\ root_component = t.root
    /\ render_state = [c \in Comp |-> DIRTY]
    /\ visible = [c \in Comp |-> TRUE]
    /\ last_size = [c \in Comp |-> <<0, 0>>]
    /\ last_position = [c \in Comp |-> <<0, 0>>]
    /\ force_redraw = TRUE
    /\ last_screen_size = <<0, 0>>
    /\ frame_count = 0
    /\ screen = InitScreen
    /\ calls = [c \in Comp |-> 0]
    /\ raised = {}
    /\ last = NoOp
    /\ steps = 0
    /\ limit = MaxShowSteps
    /\ InitFlexIdle /\ InitWinIdle /\ InitTitleIdle /\ InitInputIdle
    /\ InitLifeIdle /\ InitTimesIdle /\ InitStyle

NextShow ==
    \/ \E c \in Comp : SetVisible(c, ~visible[c])
    \/ RenderFrame({}, "none")

SpecShow == InitShow /\ [][NextShow]_vars

----------------------------------------------------------------------------
(* SpecClear: the frames of an engine seen on the Mock backend's buffer.   *)
(* The root is a user component whose render_content writes one cell or    *)
(* none.                                                                   *)

\* The sizes (height, width) of the terminal: as constructed, and one row
\* shorter
ClearSizes == {<<BufH, BufW>>, <<BufH - 1, BufW>>}

\* The cells (row, column) of the screen buffer
Cells == {<<r, k>> : r \in 0..(BufH - 1), k \in 0..(BufW - 1)}

OnScreen(cell) == in_backend(cell[1], cell[2])

\* A frame clears whatever its trigger
frame_clear_always(buf, spec, forced) == clear(buf, spec)

\* RenderEngine.render_frame: if self._force_redraw and self.root_window:
\* self.root_window.clear()
frame_clear(buf, spec, forced) == IF forced THEN clear(buf, spec) ELSE buf

\* The root's render_content writes "x" into the cells of written
RECURSIVE paint(_, _, _)
paint(buf, spec, written) ==
    IF written = {} THEN buf
    ELSE LET cell == CHOOSE w \in written : TRUE
         IN paint(add_ch(buf, spec, cell[1] - spec.y, cell[2] - spec.x, "x"),
                  spec, written \ {cell})

InitClear ==
    /\ InitTree /\ InitFlexIdle /\ InitTitleIdle /\ InitInputIdle
    /\ InitLifeIdle /\ InitTimesIdle /\ InitStyle
    /\ root_component = None
    /\ force_redraw = TRUE
    /\ last_screen_size = <<0, 0>>
    /\ frame_count = 0
    /\ calls = [c \in Comp |-> 0]
    /\ raised = {}
    /\ last = NoOp
    /\ steps = 0
    /\ limit = MaxClearSteps
    /\ screen = <<BufH, BufW>>
    /\ win = WindowSpec(BufW, BufH, 0, 0)
    /\ buffer = BlankBuffer
    /\ wlast = NoOp

\* engine.render_frame() on the Mock backend; written: the cells the root's
\* render_content writes if it is invoked
FrameOnBuffer(written) ==
    /\ written # {} => (root_component # None /\ calls'[root_component] > 0)
    /\ buffer' = IF last'.ran
                 THEN paint(frame_clear(buffer, win, force_redraw), win, written)
                 ELSE buffer
    /\ wlast' = [op |-> "render_frame", c |-> None, written |-> written]
    /\ UNCHANGED win

BufferedFrame(written) ==
    /\ RenderFrameCore({}, "none")
    /\ FrameOnBuffer(written)
    /\ UNCHANGED timeVars

NextClear ==
    \/ SetRootComponent("L")
    \/ MarkDirty("L")
    \/ ForceRedraw
    \/ \E size \in ClearSizes : Resize(size)
    \/ \E written \in {{}} \cup {{cell} : cell \in {w \in Cells : OnScreen(w)}} :
          BufferedFrame(written)

SpecClear == InitClear /\ [][NextClear]_vars

----------------------------------------------------------------------------
(* SpecTimes: the frame counter and the render-time history of an engine   *)
(* whose root is one user component that writes one cell when it is       *)
(* painted.  The sample a frame appends is modelled by the frame's         *)
(* ordinal, so that the order of the history can be told.                  *)

\* RenderEngine._max_render_history
max_render_history == 100

\* The history that keeps the newest sample out when it is full
track_drop_newest(times, sample) ==
    IF Len(times) >= max_render_history THEN times ELSE Append(times, sample)

\* render_frame: self._render_times.append(render_time); if
\* len(self._render_times) > self._max_render_history: self._render_times.pop(0)
track(times, sample) ==
    LET appended == Append(times, sample)
    IN IF Len(appended) > max_render_history THEN Tail(appended) ELSE appended

\* The faults SpecTimes lets a frame meet: none, and one inside the try
\* block
TimeFaults == {"none", "refresh"}

InitTimes ==
    /\ InitTree /\ InitFlexIdle /\ InitTitleIdle /\ InitInputIdle
    /\ InitLifeIdle /\ InitTimesIdle /\ InitStyle
    /\ root_component = "L"
    /\ force_redraw = TRUE
    /\ last_screen_size = <<0, 0>>
    /\ frame_count = 0
    /\ calls = [c \in Comp |-> 0]
    /\ raised = {}
    /\ last = NoOp
    /\ steps = 0
    /\ limit = MaxTimeSteps
    /\ screen = <<BufH, BufW>>
    /\ win = WindowSpec(BufW, BufH, 0, 0)
    /\ buffer = BlankBuffer
    /\ wlast = NoOp

\* engine.render_frame() with the history; frames counts the calls whose
\* needs_redraw() returned true
TimedFrame(fails, fault) ==
    LET needed == needs_redraw.result /\ fault \notin OutsideTry
    IN /\ RenderFrameCore(fails, fault)
       /\ FrameOnBuffer(IF calls'["L"] > 0 /\ "L" \notin fails THEN {<<0, 0>>} ELSE {})
       /\ frames' = IF needed THEN frames + 1 ELSE frames
       /\ render_times' = IF frame_count' # frame_count
                          THEN track(render_times, frame_count')
                          ELSE render_times

NextTimes ==
    \/ MarkDirty("L")
    \/ ForceRedraw
    \/ \E fails \in SUBSET {"L"}, fault \in TimeFaults : TimedFrame(fails, fault)

SpecTimes == InitTimes /\ [][NextTimes]_vars

----------------------------------------------------------------------------
(* SpecLife: the backend methods a RenderEngine calls over its lifetime,   *)
(* from its construction to the moment the application drops it.           *)

\* The backend's own state machine
backend_after(state, method) ==
    CASE method = "init" /\ state = "uninitialized" -> "initialized"
      [] method = "cleanup" /\ state = "initialized" -> "torn_down"
      [] OTHER -> state

RECURSIVE backend_after_all(_, _)
backend_after_all(state, methods) ==
    IF methods = << >> THEN state
    ELSE backend_after_all(backend_after(state, Head(methods)), Tail(methods))

\* RenderEngine._setup_rendering: the backend calls of the constructor
setup_rendering(has_colors) ==
    <<"init", "has_colors">>
    \o (IF has_colors THEN <<"init_colors">> ELSE << >>)
    \o <<"set_cursor_visible", "get_screen_size", "create_window">>

\* RenderEngine.needs_redraw: its backend call
needs_redraw_calls == <<"get_screen_size">>

\* RenderEngine.render_frame: its backend calls when the frame runs
render_frame_calls(has_root) ==
    needs_redraw_calls
    \o (IF has_root THEN <<"get_screen_size">> ELSE << >>)
    \o <<"refresh">>

CallBackend(methods) ==
    /\ Len(backend_log) + Len(methods) <= MaxLog
    /\ backend_log' = backend_log \o methods
    /\ backend_state' = backend_after_all(backend_state, methods)

InitLife ==
    /\ InitTree /\ InitEngine /\ InitHist
    /\ InitFlexIdle /\ InitWinIdle /\ InitTitleIdle /\ InitInputIdle
    /\ InitLifeIdle /\ InitTimesIdle /\ InitStyle

\* RenderEngine(backend)
Construct(has_colors) ==
    /\ engine = "none"
    /\ engine' = "running"
    /\ CallBackend(setup_rendering(has_colors))
    /\ UNCHANGED <<treeVars, engineVars, histVars, flexVars, winVars, titleVars,
                   inputVars, timeVars, style>>

\* engine.needs_redraw(), or a render_frame() that returns at once
LifeNeedsRedraw ==
    /\ engine = "running"
    /\ CallBackend(needs_redraw_calls)
    /\ UNCHANGED <<engine, treeVars, engineVars, histVars, flexVars, winVars,
                   titleVars, inputVars, timeVars, style>>

\* engine.render_frame() that runs
LifeRenderFrame(has_root) ==
    /\ engine = "running"
    /\ CallBackend(render_frame_calls(has_root))
    /\ UNCHANGED <<engine, treeVars, engineVars, histVars, flexVars, winVars,
                   titleVars, inputVars, timeVars, style>>

\* The application is done with the engine.  RenderEngine has no method
\* for this and calls nothing.
Shutdown ==
    /\ engine = "running"
    /\ engine' = "shut_down"
    /\ UNCHANGED <<backend_state, backend_log, treeVars, engineVars, histVars,
                   flexVars, winVars, titleVars, inputVars, timeVars, style>>

NextLife ==
    \/ \E has_colors \in BOOLEAN : Construct(has_colors)
    \/ LifeNeedsRedraw
    \/ \E has_root \in BOOLEAN : LifeRenderFrame(has_root)
    \/ Shutdown

SpecLife == InitLife /\ [][NextLife]_vars

----------------------------------------------------------------------------
(* Properties of the component tree, checked under Spec *)

\* The components that hold c, directly or transitively, in a children list.
Holders(c) == {a \in Comp \ {c} : c \in DescOrSelf(children, a)}

\* Every component is held at most once, by at most one children list.
IsTree ==
    \A c \in Comp :
        Cardinality({<<p, i>> \in Comp \X (1..MaxChildren + 1) :
                        i <= Len(children[p]) /\ children[p][i] = c}) <= 1

\* C1: mark_dirty() on a component that the frame just run painted in a
\* non-empty region (so it is visible below visible ancestors in the root
\* tree) makes needs_redraw() return true, and a render_frame() called next
\* invokes that component's render_content, however it was attached.
C1_MarkDirtyReachesRoot ==
    [][/\ (last'.op = "mark_dirty" /\ last'.painted) => needs_redraw'.result
       /\ (last.op = "mark_dirty" /\ last.painted /\ last'.op = "render_frame")
              => calls'[last.c] >= 1]_vars

\* C2: after a frame, every component whose render_content was invoked in it
\* (it was visible and DIRTY or INVALIDATED) is CLEAN, whether render_content
\* returned or raised.
C2_CleanAfterRender ==
    last.op = "render_frame" =>
        \A c \in Comp : calls[c] > 0 => render_state[c] = CLEAN

\* C3: two frames in a row over an unchanged tree with the same context: no
\* component's render_content is invoked twice in the first, and none is
\* invoked at all in the second.
C3_RenderedOnce ==
    [][(last.op = "render_frame" /\ last'.op = "render_frame" /\ IsTree)
          => \A c \in Comp : calls[c] <= 1 /\ calls'[c] = 0]_vars

\* C4: after mark_dirty() on a component, every component holding it in a
\* children list, directly or transitively, is DIRTY or INVALIDATED.
C4_AncestorsDirty ==
    last.op = "mark_dirty" =>
        \A a \in Holders(last.c) : render_state[a] \in {DIRTY, INVALIDATED}

\* C5: invalidate() on a component leaves it and every descendant reachable
\* through children lists INVALIDATED (hidden ones and a BorderedContainer's
\* content included) and changes the state of no other component.
C5_InvalidatePushDown ==
    [][last'.op = "invalidate" =>
          \A d \in Comp :
              IF d \in DescOrSelf(children, last'.c)
              THEN render_state'[d] = INVALIDATED
              ELSE render_state'[d] = render_state[d]]_vars

\* C5 witness: a BorderedContainer was invalidated while its content was
\* hidden, and a component outside it is not INVALIDATED.
C5_Witness ==
    /\ last.op = "invalidate"
    /\ KindOf(last.c) = "bordered"
    /\ content[last.c] # None
    /\ ~visible[content[last.c]]
    /\ render_state[content[last.c]] = INVALIDATED
    /\ \E e \in Comp \ DescOrSelf(children, last.c) : render_state[e] # INVALIDATED

\* C6: a component that is INVALIDATED stays INVALIDATED in every operation,
\* except in a frame that invokes its render_content without an error, which
\* leaves it CLEAN; no operation turns INVALIDATED into DIRTY.
C6_InvalidatedSurvives ==
    [][\A c \in Comp :
          render_state[c] = INVALIDATED =>
              \/ render_state'[c] = INVALIDATED
              \/ /\ last'.op = "render_frame"
                 /\ calls'[c] > 0
                 /\ c \notin raised'
                 /\ render_state'[c] = CLEAN]_vars

\* C6 witness: mark_dirty() was called on an INVALIDATED child of an
\* INVALIDATED parent, and both still are INVALIDATED.
C6_Witness ==
    /\ last.op = "mark_dirty"
    /\ render_state[last.c] = INVALIDATED
    /\ parent[last.c] # None
    /\ render_state[parent[last.c]] = INVALIDATED

\* C7: a component is in the children list of p exactly when its parent
\* reference is p.
C7_ParentMatchesChildren ==
    \A p \in Comp, c \in Comp : InSeq(children[p], c) <=> parent[c] = p

----------------------------------------------------------------------------
(* Properties of the flex allocation, checked under SpecFlex *)

RECURSIVE FixedSum(_, _)
FixedSum(cfgs, i) ==
    IF i > Len(cfgs) THEN 0
    ELSE (IF HasFixed(cfgs[i]) THEN cfgs[i].fixed_size ELSE 0) + FixedSum(cfgs, i + 1)

\* The flexible children that take part in the second pass.
PositiveFlex(cfgs) == {i \in 1..Len(cfgs) : ~HasFixed(cfgs[i]) /\ FlexOf(cfgs[i]) > 0}

NoClamps(cfgs) ==
    \A i \in 1..Len(cfgs) : MinOf(cfgs[i]) = 0 /\ MaxOf(cfgs[i]) = NoSize

\* C8: when the fixed sizes sum to at most the available space, the sum of
\* the allocated sizes does not exceed the available space, whatever the
\* weights and min_size/max_size settings.
C8_SumWithinSpace ==
    (flex_out.done /\ FixedSum(flex_in.cfgs, 1) <= flex_in.space)
        => SumSizes(flex_out.allocations, 1) <= flex_in.space

\* C9 as stated: without min_size/max_size, with fixed sizes summing to at
\* most the available space and a positive total weight, the allocated sizes
\* sum to exactly the available space.
C9_SumEqualsSpace ==
    (/\ flex_out.done
     /\ NoClamps(flex_in.cfgs)
     /\ FixedSum(flex_in.cfgs, 1) <= flex_in.space
     /\ PositiveFlex(flex_in.cfgs) # {})
        => SumSizes(flex_out.allocations, 1) = flex_in.space

\* C9 as amended: under the same conditions the allocated sizes sum to at
\* most the available space, fall short of it by at most one cell per
\* flexible child of positive weight, and sum to exactly the available space
\* when there is a single such child.
C9_SumWithinOnePerChild ==
    (/\ flex_out.done
     /\ NoClamps(flex_in.cfgs)
     /\ FixedSum(flex_in.cfgs, 1) <= flex_in.space
     /\ PositiveFlex(flex_in.cfgs) # {})
        => LET sum == SumSizes(flex_out.allocations, 1)
               n == Cardinality(PositiveFlex(flex_in.cfgs))
           IN /\ sum <= flex_in.space
              /\ sum >= flex_in.space - n
              /\ n = 1 => sum = flex_in.space

\* C9 witness: an allocation without clamps whose truncated shares leave
\* part of the available space unused.
C9_Witness ==
    /\ flex_out.done
    /\ NoClamps(flex_in.cfgs)
    /\ FixedSum(flex_in.cfgs, 1) <= flex_in.space
    /\ Cardinality(PositiveFlex(flex_in.cfgs)) >= 2
    /\ \E i \in 1..Len(flex_in.cfgs) : HasFixed(flex_in.cfgs[i]) /\ flex_in.cfgs[i].fixed_size > 0
    /\ SumSizes(flex_out.allocations, 1) < flex_in.space
    /\ SumSizes(flex_out.allocations, 1) > FixedSum(flex_in.cfgs, 1)

----------------------------------------------------------------------------
(* Properties of the Mock window, checked under SpecWin *)

\* C10: add_str changes no buffer cell at or beyond the window's column
\* bound, its x offset plus its width.
C10_NoWritePastWindow ==
    [][wlast'.op = "add_str" =>
          \A r \in DOMAIN buffer : \A k \in DOMAIN buffer[r] :
              k >= win.x + win.width => buffer'[r][k] = buffer[r][k]]_vars

\* C11: add_str and add_ch never raise, for any coordinates, text length
\* and window size, also after backend.width / backend.height were
\* reassigned (a resize).
C11_WritesNeverRaise ==
    wlast.op \in {"add_str", "add_ch"} => ~wlast.error

----------------------------------------------------------------------------
(* Properties of the frame pass, checked under Spec and SpecApp *)

\* C12: render_frame never propagates an exception to its caller, whichever
\* step of the frame fails.
C12_FrameNeverPropagates ==
    last.op = "render_frame" => ~last.propagated

\* C13: when the backend reports a size other than the last observed one,
\* needs_redraw returns true, records the new size and leaves the root and
\* every descendant INVALIDATED; the next frame renders a visible root with
\* a context of the new size and leaves it CLEAN.
C13_ResizeInvalidatesAndRepaints ==
    [][screen # last_screen_size =>
         /\ last'.op = "needs_redraw" =>
               /\ last'.result
               /\ last_screen_size' = screen
               /\ root_component # None =>
                     \A d \in DescOrSelf(children, root_component) :
                         render_state'[d] = INVALIDATED
         /\ (/\ last'.op = "render_frame"
             /\ last'.fault = "none"
             /\ root_component # None
             /\ visible[root_component]) =>
               /\ last'.ran
               /\ last_screen_size' = screen
               /\ last_size'[root_component] = <<screen[2], screen[1]>>
               /\ render_state'[root_component] = CLEAN]_vars

----------------------------------------------------------------------------
(* Properties of BorderedContainer, checked under Spec *)

\* The children list of b holds exactly its current content.
OnlyContent(ch, ct, b) == ch[b] = IF ct[b] = None THEN << >> ELSE <<ct[b]>>

\* C14: a BorderedContainer's children list holds exactly its current
\* content (nothing when the content is None) after any sequence of
\* set_content calls: it does so after construction, and every set_content
\* call on a container whose list does keeps it so.
C14_ChildrenAreContent ==
    /\ \A b \in Comp : KindOf(b) = "bordered" => OnlyContent(children, content, b)
    /\ [][\A b \in Comp :
            (/\ last'.op = "set_content"
             /\ last'.p = b
             /\ OnlyContent(children, content, b))
            => OnlyContent(children', content', b)]_vars

\* A set_content call has replaced one content by another.
C14_Witness ==
    /\ last.op = "set_content"
    /\ last.old # None
    /\ last.c # None
    /\ last.c # last.old
    /\ children[last.p] = <<last.c>>
    /\ content[last.p] = last.c

\* C15: a title is drawn only at width 6 or more; the string drawn is the
\* title between two spaces if that is at most width - 4 long, else its
\* first (width - 4) - 3 characters followed by an ellipsis; it is at most
\* width - 4 long and lies strictly between the two corners.
C15_TitleWithinBorder ==
    (title_out.done /\ title_in.title # << >>) =>
        LET w == title_in.width
            full == title_text(title_in.title)
        IN /\ w < 6 => ~title_out.drawn
           /\ w >= 6 =>
                 /\ title_out.drawn
                 /\ title_out.text = IF Len(full) <= w - 4 THEN full
                                     ELSE SubSeq(full, 1, (w - 4) - 3) \o Ellipsis
                 /\ Len(title_out.text) <= w - 4
                 /\ title_out.x > title_in.x
                 /\ title_out.x + Len(title_out.text) - 1 < title_in.x + w - 1

----------------------------------------------------------------------------
(* Properties of the Mock input queue, checked under SpecInput *)

\* C16: get_input returns the keys given to add_input in FIFO order, each
\* exactly once, for any interleaving of the two calls (the keys added are
\* the keys returned followed by the keys still queued), and returns -1
\* whenever the queue is empty, for any timeout.
C16_InputFifo ==
    /\ added = got \o input_queue
    /\ ilast.op = "get_input" =>
          /\ ilast.empty => ilast.result = Sentinel /\ input_queue = << >>
          /\ ~ilast.empty => ilast.result = added[Len(got)]

\* Two different keys were returned while another key was still queued.
C16_Witness ==
    /\ ilast.op = "get_input"
    /\ Len(got) >= 2
    /\ got[1] # got[2]
    /\ input_queue # << >>

----------------------------------------------------------------------------
(* Properties of visibility, checked under SpecApp *)

C17_WitnessSameFlag ==
    /\ last.op = "set_visible"
    /\ ~last.after_hide
    /\ last.flag
    /\ last.before # HIDDEN
    /\ parent[last.c] # None
    /\ render_state[parent[last.c]] = CLEAN

\* The contexts render is probed with: the whole screen and a region of
\* another size at another position.
ProbeCtxs == {Ctx(0, 0, screen[2], screen[1]), Ctx(1, 1, 2, 1)}

\* render(ctx) on a component that reports HIDDEN returns the stored
\* states, the remembered geometry and the render_content counts as they
\* were.
HiddenRenderIsNoOp ==
    \A c \in Comp : \A ctx \in ProbeCtxs : \A fails \in {{}, Plain} :
        get_render_state(render_state, c) = HIDDEN =>
            LET W0 == [rs |-> render_state, ls |-> last_size, lp |-> last_position,
                       calls |-> [d \in Comp |-> 0], raised |-> {}]
            IN render(W0, c, ctx, fails) = W0

\* C18: render(ctx) on a component that reports HIDDEN has no effect:
\* render_content is called neither on it nor on a descendant, its stored
\* state and its remembered size and position are unchanged also when ctx
\* differs from them.  A frame whose root is hidden calls no
\* render_content at all and changes no remembered geometry and no stored
\* state beyond what needs_redraw did.
C18_HiddenRenderNoEffect ==
    [][/\ HiddenRenderIsNoOp'
       /\ (/\ last'.op = "render_frame"
           /\ last'.ran
           /\ root_component # None
           /\ ~visible[root_component]) =>
             /\ \A c \in Comp : calls'[c] = 0
             /\ last_size' = last_size
             /\ last_position' = last_position
             /\ render_state' = needs_redraw.rs]_vars

\* A frame ran on a hidden root that has children, needs repainting and
\* remembers another geometry than the screen's.
C18_Witness ==
    /\ last.op = "render_frame"
    /\ last.ran
    /\ root_component # None
    /\ ~visible[root_component]
    /\ children[root_component] # << >>
    /\ render_state[root_component] \in {DIRTY, INVALIDATED}
    /\ last_size[root_component] # <<screen[2], screen[1]>>

----------------------------------------------------------------------------
(* Properties of error handling, checked under SpecApp *)

\* s is visible and is DIRTY or INVALIDATED when the pass of this
\* render_frame call starts.
NeedsPaint(s) == visible[s] /\ needs_redraw.rs[s] \in {DIRTY, INVALIDATED}

\* The FlexContainer f, rendered with the main-axis space it remembers,
\* allots its child s a size above zero.
Allotted(f, s) ==
    LET vis == visible_children(f)
        cfgs == [i \in 1..Len(vis) |-> child_configs[f][vis[i]]]
        allocations == calculate_allocations(cfgs, last_size[f][2])
    IN \E k \in 1..Len(vis) : vis[k] = s /\ allocations[k].size > 0

\* C19: when a component's render_content raises during a frame (and no
\* backend call fails), the frame is not aborted: every sibling that the
\* same parent renders after it (FlexContainer allocation loop or default
\* child loop) and that needed repainting has render_content invoked, the
\* backend is flushed and the frame is counted.
C19_RaiseDoesNotAbortFrame ==
    [][(last'.op = "render_frame" /\ last'.fault = "none" /\ raised' # {}) =>
          /\ last'.ran
          /\ last'.flushed
          /\ frame_count' = frame_count + 1
          /\ ~force_redraw'
          /\ \A p \in Comp : \A i, j \in 1..Len(children[p]) :
                (/\ KindOf(p) \in {"flex", "plain"}
                 /\ i < j
                 /\ children[p][i] \in raised'
                 /\ NeedsPaint(children[p][j])
                 /\ KindOf(p) = "flex" => Allotted(p, children[p][j])')
                => calls'[children[p][j]] >= 1]_vars

\* A child of a user composite raised and the sibling after it was painted.
C19_Witness ==
    /\ last.op = "render_frame"
    /\ last.flushed
    /\ \E p \in Comp : \E i, j \in 1..Len(children[p]) :
          /\ KindOf(p) = "plain"
          /\ i < j
          /\ children[p][i] \in raised
          /\ calls[children[p][j]] >= 1

\* A child of a FlexContainer raised and the sibling after it was painted.
C19_WitnessFlex ==
    /\ last.op = "render_frame"
    /\ last.flushed
    /\ \E p \in Comp : \E i, j \in 1..Len(children[p]) :
          /\ KindOf(p) = "flex"
          /\ i < j
          /\ children[p][i] \in raised
          /\ calls[children[p][j]] >= 1

----------------------------------------------------------------------------
(* Properties of the FlexContainer's child configuration, checked under Spec *)

\* C20: in a FlexContainer a child with a fixed_size never receives a flex
\* share (its allocation has weight 0 and at most its fixed size), and a
\* child just attached with no fixed_size and no explicit flex weight, by
\* add_child (no configuration stored for it) or by add_child_with_config
\* without a flex argument, takes part in the flex pass with weight 1.
C20_FixedOrFlexible ==
    \A f \in Comp : KindOf(f) = "flex" =>
        LET vis == visible_children(f)
            cfgs == [i \in 1..Len(vis) |-> child_configs[f][vis[i]]]
            allocations == calculate_allocations(cfgs, screen[1])
        IN \A k \in 1..Len(vis) :
              /\ HasFixed(cfgs[k]) =>
                    /\ allocations[k].flex = 0
                    /\ allocations[k].size <= cfgs[k].fixed_size
              /\ (/\ last.op = "add_child"
                  /\ last.p = f /\ last.c = vis[k]
                  /\ cfgs[k] = NoConfig) => allocations[k].flex = 1
              /\ (/\ last.op = "add_child_with_config"
                  /\ last.p = f /\ last.c = vis[k]
                  /\ "fixed_size" \notin last.given
                  /\ "flex" \notin last.given) => allocations[k].flex = 1

----------------------------------------------------------------------------
(* Properties of the backend's lifetime, checked under SpecLife *)

\* How often method occurs in the log
RECURSIVE CountCalls(_, _)
CountCalls(log, method) ==
    IF log = << >> THEN 0
    ELSE (IF Head(log) = method THEN 1 ELSE 0) + CountCalls(Tail(log), method)

\* C21: the backend goes uninitialized -> initialized -> torn down: the
\* engine calls init exactly once, at construction and before any other
\* backend call, calls cleanup exactly once on shutdown, and makes no
\* backend call after cleanup.
C21_BackendLifecycle ==
    /\ engine = "none" => backend_log = << >> /\ backend_state = "uninitialized"
    /\ engine # "none" =>
          /\ backend_log[1] = "init"
          /\ CountCalls(backend_log, "init") = 1
    /\ engine = "running" =>
          /\ backend_state = "initialized"
          /\ CountCalls(backend_log, "cleanup") = 0
    /\ engine = "shut_down" =>
          /\ backend_state = "torn_down"
          /\ CountCalls(backend_log, "cleanup") = 1
          /\ backend_log[Len(backend_log)] = "cleanup"

----------------------------------------------------------------------------
(* The allocation against its two-pass description, checked under SpecFlex *)

\* The space left when the first pass reaches child i
RECURSIVE RemainingBefore(_, _, _)
RemainingBefore(cfgs, total_space, i) ==
    IF i = 1 THEN total_space
    ELSE LET before == RemainingBefore(cfgs, total_space, i - 1)
         IN IF HasFixed(cfgs[i - 1])
            THEN before - Min(cfgs[i - 1].fixed_size, before)
            ELSE before

RECURSIVE TotalWeight(_, _)
TotalWeight(cfgs, i) ==
    IF i > Len(cfgs) THEN 0
    ELSE (IF HasFixed(cfgs[i]) THEN 0 ELSE FlexOf(cfgs[i])) + TotalWeight(cfgs, i + 1)

Clamp(n, lo, hi) == IF hi # NoSize THEN Min(Max(n, lo), hi) ELSE Max(n, lo)

\* The sizes of the two-pass description, one per visible child
TwoPassReference(cfgs, total_space) ==
    LET remaining == RemainingBefore(cfgs, total_space, Len(cfgs) + 1)
        total == TotalWeight(cfgs, 1)
    IN [i \in 1..Len(cfgs) |->
          IF HasFixed(cfgs[i])
          THEN Min(cfgs[i].fixed_size, RemainingBefore(cfgs, total_space, i))
          ELSE IF total > 0 /\ remaining > 0
               THEN Clamp((remaining * FlexOf(cfgs[i])) \div total,
                          MinOf(cfgs[i]), MaxOf(cfgs[i]))
               ELSE 0]

SizesOf(allocations) == [i \in 1..Len(allocations) |-> allocations[i].size]

\* {fixed:3}, {flex:1}, {flex:1} in height 21
ExampleSizes ==
    SizesOf(calculate_allocations(<<Config(3, 0, 0, NoSize), Config(NoSize, 1, 0, NoSize),
                                    Config(NoSize, 1, 0, NoSize)>>, 21))

\* C22: _calculate_allocations gives each visible child what the two-pass
\* description gives it: a fixed child min(fixed_size, remaining); a
\* flexible child floor(remaining * weight / total weight) clamped to
\* [min_size, max_size] when the total weight and the remaining space are
\* positive, and 0 otherwise; the example allocates [3, 9, 9].
C22_EqualsTwoPassReference ==
    /\ ExampleSizes = <<3, 9, 9>>
    /\ flex_out.done =>
          SizesOf(flex_out.allocations) = TwoPassReference(flex_in.cfgs, flex_in.space)

----------------------------------------------------------------------------
(* Properties of the geometry handed down, checked under SpecLayout *)

Remembered(c) ==
    Ctx(last_position[c][1], last_position[c][2], last_size[c][1], last_size[c][2])

\* The contexts the geometry check is probed with: the remembered one, the
\* remembered size at another position, the whole screen and a region of
\* another size at another position.
GeometryProbes(c) ==
    ProbeCtxs \cup {Remembered(c),
                    [Remembered(c) EXCEPT !.x = @ + 1],
                    [Remembered(c) EXCEPT !.y = @ + 1]}

GeometryDiffers(c, ctx) ==
    <<ctx.width, ctx.height>> # last_size[c] \/ <<ctx.x, ctx.y>> # last_position[c]

\* render(ctx) on a component that does not report HIDDEN: with another
\* geometry than the remembered one the whole subtree is INVALIDATED
\* before any render_content runs, the geometry is remembered and the
\* component's render_content is invoked; with the remembered geometry the
\* check changes nothing and render_content is invoked only on a DIRTY or
\* INVALIDATED component.
GeometryCheckOnRender ==
    \A c \in Comp : \A ctx \in GeometryProbes(c) : \A fails \in {{}, Plain} :
        get_render_state(render_state, c) # HIDDEN =>
            \A W0 \in {[rs |-> render_state, ls |-> last_size, lp |-> last_position,
                        calls |-> [d \in Comp |-> 0], raised |-> {}]} :
            \A W1 \in {check_geometry(W0, c, ctx)} :
            \A W \in {render(W0, c, ctx, fails)} :
               IF GeometryDiffers(c, ctx)
               THEN /\ \A d \in DescOrSelf(children, c) :
                          /\ W1.rs[d] = INVALIDATED
                          /\ W.rs[d] = INVALIDATED \/ W.calls[d] > 0
                    /\ W1.calls = W0.calls
                    /\ W.ls[c] = <<ctx.width, ctx.height>>
                    /\ W.lp[c] = <<ctx.x, ctx.y>>
                    /\ W.calls[c] > 0
               ELSE /\ W1 = W0
                    /\ W.calls[c] > 0 <=> render_state[c] \in {DIRTY, INVALIDATED}

\* C23: render(ctx) on a visible component with a size or position other
\* than the remembered one invalidates the component and all its
\* descendants before anything is painted, remembers the new values and
\* invokes render_content even if the component was CLEAN; with both
\* unchanged it invalidates nothing.  In a frame, every component whose
\* remembered geometry changed had its render_content invoked, and each of
\* its descendants was repainted or is left INVALIDATED.
C23_GeometryChangeInvalidates ==
    /\ []GeometryCheckOnRender
    /\ [][(last'.op = "render_frame" /\ last'.ran) =>
                \A c \in Comp :
                    (last_size'[c] # last_size[c] \/ last_position'[c] # last_position[c]) =>
                        /\ calls'[c] > 0
                        /\ \A d \in DescOrSelf(children, c) :
                              render_state'[d] = INVALIDATED \/ calls'[d] > 0]_vars

\* The second frame of an application frame, after its first child was
\* hidden: the bordered child, CLEAN since the first frame, has moved to
\* the container's origin and grown, and was repainted with its content.
C23_Witness ==
    /\ last.op = "render_frame"
    /\ last.ran
    /\ root_component = "F"
    /\ steps = 3
    /\ frame_count = 2
    /\ screen = InitScreen
    /\ ~visible["L"]
    /\ raised = {}
    /\ last_position["B"] = <<0, 0>>
    /\ render_state["B"] = CLEAN
    /\ calls["B"] = 1
    /\ calls["M"] = 1

\* What the allocations before the i-th take of the main axis
Offset(allocations, i) == SumSizes(allocations, 1) - SumSizes(allocations, i)

\* The children of f that got a context in a render of f with ctx remember
\* consecutive slices of ctx: ls and lp are the remembered sizes and
\* positions after the render.
FlexSlices(f, ctx, ls, lp) ==
    LET vis == visible_children(f)
        cfgs == [i \in 1..Len(vis) |-> child_configs[f][vis[i]]]
        vertical == direction(f) = "vertical"
        allocations == calculate_allocations(cfgs, IF vertical THEN ctx.height ELSE ctx.width)
    IN \A i \in 1..Len(vis) :
          allocations[i].size > 0 =>
              IF vertical
              THEN /\ lp[vis[i]] = <<ctx.x, ctx.y + Offset(allocations, i)>>
                   /\ ls[vis[i]] = <<ctx.width, allocations[i].size>>
              ELSE /\ lp[vis[i]] = <<ctx.x + Offset(allocations, i), ctx.y>>
                   /\ ls[vis[i]] = <<allocations[i].size, ctx.height>>

\* Contexts that differ in window, theme and frame time
CarriedProbes ==
    {RenderContext(w, 1, 0, 3, 2, t, ft) : w \in {"root_window", "other_window"},
                                          t \in {None, "theme"}, ft \in {0, 1}}

Carries(from, to) ==
    /\ to.window = from.window
    /\ to.theme = from.theme
    /\ to.frame_time = from.frame_time

\* FlexContainer.render_content with any context hands consecutive slices
\* to its children, and each slice carries the context's window, theme and
\* frame time.
FlexSlicesOnRender ==
    \A f \in Comp : KindOf(f) = "flex" =>
        /\ \A ctx \in GeometryProbes(f) :
              \A W \in {flex_render_content(
                            [rs |-> render_state, ls |-> last_size, lp |-> last_position,
                             calls |-> [d \in Comp |-> 0], raised |-> {}], f, ctx, {})} :
                  FlexSlices(f, ctx, W.ls, W.lp)
        /\ \A ctx \in CarriedProbes : \A cur \in 0..2 : \A size \in 1..2 :
              Carries(ctx, child_ctx(f, ctx, cur, size))

\* C24: the contexts a FlexContainer passes to its children in one render
\* are contiguous and non-overlapping along the main axis, in child order,
\* from the container's own origin; each has the child's allocation as its
\* main-axis extent and the container's cross-axis origin and extent, and
\* carries the container's window, theme and frame time.
C24_FlexContextsContiguous ==
    /\ []FlexSlicesOnRender
    /\ [](\A f \in Comp :
             (/\ KindOf(f) = "flex"
              /\ last.op = "render_frame"
              /\ last.ran
              /\ calls[f] > 0)
                => FlexSlices(f, Remembered(f), last_size, last_position))

\* A frame in which a FlexContainer placed two children one after the
\* other, the second one away from the container's origin.
C24_Witness ==
    /\ last.op = "render_frame"
    /\ last.ran
    /\ calls["F"] > 0
    /\ Len(visible_children("F")) = 2
    /\ \A i \in 1..2 : calls[visible_children("F")[i]] > 0
    /\ last_position[visible_children("F")[2]] # last_position["F"]

\* The contexts BorderedContainer.render_content is probed with: regions
\* with and without an interior, and the 0x0 context.
BorderedProbes ==
    ProbeCtxs \cup {Ctx(0, 0, 0, 0), Ctx(0, 0, 2, 2), Ctx(1, 0, 1, 3), Ctx(0, 1, 3, 1),
                    Ctx(1, 1, 3, 3)}

\* The padding as documented: one cell on every side with a border, none
\* without
Pad == IF style.show_border THEN 1 ELSE 0

HasInterior(ctx) == ctx.width - 2 * Pad > 0 /\ ctx.height - 2 * Pad > 0

\* After a render of b with ctx its visible content remembers the padded
\* region: ls and lp are the remembered sizes and positions after it.
ContentPadded(b, ctx, ls, lp) ==
    /\ lp[content[b]] = <<ctx.x + Pad, ctx.y + Pad>>
    /\ ls[content[b]] = <<ctx.width - 2 * Pad, ctx.height - 2 * Pad>>

\* BorderedContainer.render_content with any context renders a visible
\* content in the padded region if that has an interior, and otherwise
\* calls no render_content, remembers nothing and raises nothing.
BorderedContentOnRender ==
    \A b \in Comp : (KindOf(b) = "bordered" /\ content[b] # None /\ visible[content[b]]) =>
        \A ctx \in BorderedProbes : \A fails \in {{}, Plain} :
            \A W0 \in {[rs |-> render_state, ls |-> last_size, lp |-> last_position,
                        calls |-> [d \in Comp |-> 0], raised |-> {}]} :
            \A W \in {bordered_render_content(W0, b, ctx, fails)} :
                IF HasInterior(ctx)
                THEN ContentPadded(b, ctx, W.ls, W.lp)
                ELSE W = W0

\* C25: BorderedContainer renders its content in a context offset by the
\* (left, top) padding and reduced by left+right and top+bottom padding,
\* the padding being (1,1,1,1) with a border and (0,0,0,0) without; when
\* the resulting width or height is not positive the content's render is
\* not called, nothing is drawn for it and nothing raises, also for a 0x0
\* context.
C25_ContentInPaddedContext ==
    /\ []BorderedContentOnRender
    /\ [](\A b \in Comp :
             (/\ KindOf(b) = "bordered"
              /\ content[b] # None
              /\ visible[content[b]]
              /\ last.op = "render_frame"
              /\ last.ran
              /\ calls[b] > 0)
                => IF HasInterior(Remembered(b))
                   THEN ContentPadded(b, Remembered(b), last_size, last_position)
                   ELSE calls[content[b]] = 0 /\ content[b] \notin raised)

\* A frame painted a bordered container that has become too small for an
\* interior: its content, painted in an earlier frame, was skipped.
C25_Witness ==
    /\ last.op = "render_frame"
    /\ last.ran
    /\ style.show_border
    /\ content["B"] = "M"
    /\ visible["M"]
    /\ calls["B"] > 0
    /\ ~HasInterior(Remembered("B"))
    /\ last_size["M"] # <<0, 0>>
    /\ calls["M"] = 0

----------------------------------------------------------------------------
(* Properties of the buffer over frames, checked under SpecClear *)

\* C26: a render_frame that runs clears the backend buffer if and only if
\* the force-redraw flag was set when it started: such a frame leaves
\* every cell of the screen it does not rewrite blank; a frame triggered
\* only by a dirty root or a change of the screen size leaves every cell
\* it does not rewrite as it was.
C26_ClearIffForced ==
    [][(last'.op = "render_frame" /\ last'.ran) =>
          \A cell \in Cells \ wlast'.written :
              IF force_redraw /\ OnScreen(cell)
              THEN buffer'[cell[1]][cell[2]] = " "
              ELSE buffer'[cell[1]][cell[2]] = buffer[cell[1]][cell[2]]]_vars

\* A frame that was triggered by a dirty root alone wrote one cell and
\* kept a cell written by an earlier frame.
C26_Witness ==
    /\ last.op = "render_frame"
    /\ last.ran
    /\ screen = last_screen_size
    /\ wlast.written # {}
    /\ \E cell \in Cells \ wlast.written : OnScreen(cell) /\ buffer[cell[1]][cell[2]] = "x"

----------------------------------------------------------------------------
(* Properties of the counter and the history, checked under SpecTimes *)

\* The history holds the samples of the latest frames, oldest first.
LatestSamples ==
    /\ Len(render_times) = Min(frame_count, 100)
    /\ \A i \in 1..Len(render_times) :
          render_times[i] = frame_count - Len(render_times) + i

\* C27: the frame counter equals the number of render_frame calls for
\* which needs_redraw was true; a call for which it was false invokes no
\* render_content, writes no buffer cell and leaves the counter, the force
\* flag and the history unchanged; after every frame that ran the force
\* flag is false, even if rendering raised, and the history holds
\* min(frame counter, 100) samples, the oldest dropped first.
C27_CounterAndHistory ==
    /\ [](frame_count = frames /\ LatestSamples)
    /\ [][last'.op = "render_frame" =>
             IF frames' = frames
             THEN /\ \A c \in Comp : calls'[c] = 0
                  /\ buffer' = buffer
                  /\ frame_count' = frame_count
                  /\ force_redraw' = force_redraw
                  /\ render_times' = render_times
             ELSE ~force_redraw']_vars

\* The 101st frame ran, with a render_content that raised, and the sample
\* of the first frame has left the history.
C27_Witness ==
    /\ last.op = "render_frame"
    /\ frame_count = 101
    /\ raised # {}
    /\ Len(render_times) = 100
    /\ render_times[1] = 2

----------------------------------------------------------------------------
(* Properties of hiding and showing, checked under SpecShow *)

\* The first four operations were: a frame that painted last.c, the call
\* that hid it, a frame, and the call that has just shown it again.
ShownAgainAfterFrame ==
    /\ steps = 4
    /\ frame_count = 2
    /\ last.op = "set_visible"
    /\ last.flag
    /\ last.before = HIDDEN
    /\ \A d \in Comp : visible[d]
    /\ render_state[last.c] = CLEAN
    /\ last_size[last.c][1] > 0 /\ last_size[last.c][2] > 0

\* C28: a painted component is hidden, a frame is rendered, and the
\* component is shown again: the next render_frame invokes its
\* render_content.
C28_ShownAgainIsRepainted ==
    [][(ShownAgainAfterFrame /\ last'.op = "render_frame") =>
          calls'[last.c] > 0]_vars

----------------------------------------------------------------------------
(* Properties of the engine's redraw request, checked under Spec *)

\* C29: whenever needs_redraw() has returned true, a render_frame() called
\* directly after it renders a frame (the frame counter increases),
\* whatever the trigger was and whether the root is set, absent or hidden.
C29_QueryKeepsRequest ==
    [][(/\ last.op = "needs_redraw"
        /\ last.result
        /\ last'.op = "render_frame") => frame_count' = frame_count + 1]_vars

----------------------------------------------------------------------------
(* Properties of the tree after a frame, checked under SpecLayout *)

\* The visible components reached from c through visible components
RECURSIVE ShownBelow(_)
ShownBelow(c) ==
    IF ~visible[c] THEN {}
    ELSE {c} \cup UNION {ShownBelow(children[c][i]) : i \in 1..Len(children[c])}

ShownUnderRoot(c) == root_component # None /\ c \in ShownBelow(root_component)

\* C30: after a render_frame that ran with no error in any render_content,
\* every visible component reachable from the root through visible
\* ancestors is CLEAN, also a FlexContainer child that was allotted zero
\* space and the content of a BorderedContainer too small for an interior.
C30_AllCleanAfterFrame ==
    (last.op = "render_frame" /\ last.ran /\ raised = {}) =>
        \A c \in Comp : ShownUnderRoot(c) => render_state[c] = CLEAN

====
